---- MODULE Spec2Model ----
(***************************************************************************)
(* Model of the identity Merkle tooling of SuperKernel-6.0:                *)
(*   src/src/identity/merkle_identity.py  (leaves, root, proof, verify,    *)
(*                                          hex entry points)              *)
(*   src/src/identity/keccak.py           (pad10*1 padding and absorb      *)
(*                                          blocks of keccak_256)          *)
(*                                                                         *)
(* Byte strings are sequences of integers 0..255.  The Keccak-256 backend  *)
(* of merkle_identity.py is modelled as a collision-free function: the     *)
(* digest of a payload is a byte string that contains the payload, headed  *)
(* by a payload-dependent byte so that the byte order of digests is not    *)
(* the order of their payloads.  Hex strings are sequences of one-         *)
(* character strings.                                                      *)
(***************************************************************************)
EXTENDS Integers, Sequences, FiniteSets

\* ------------------------------------------------------------------ bounds
MaxRecords == 5
MaxNonce == 3
MaxAdvRecords == 3
MaxAdvNonce == 2
MaxAdvProof == 2
MaxTamperRecords == 4
MaxTamperNonce == 2
MaxHexRecords == 3
MaxHexNonce == 2
MaxDataLen == 280

VARIABLES
    records,      \* the identity records handed to the call
    pc,           \* "idle" before the call, "done" after it
    op,           \* the function called
    index,        \* build_merkle_proof's index argument
    argProof,     \* verify_merkle_proof's arguments
    argRoot,
    argLeaf,
    status,       \* "none", "ok", "ValueError" or "IndexError"
    retRoot,      \* build_merkle_root's value
    retProof,     \* build_merkle_proof's value
    retBool,      \* verify_merkle_proof's value
    tree,         \* the successive values of `level` in the build loop
    argProofHex,  \* verify_merkle_proof_hex's arguments
    argRootHex,
    argLeafHex,
    retRootHex,   \* build_merkle_root_hex's value
    retProofHex,  \* build_merkle_proof_hex's value
    data,         \* keccak_256's input
    padded,       \* keccak_256's padded buffer
    blocks        \* the rate-sized blocks keccak_256 absorbs

vars == <<records, pc, op, index, argProof, argRoot, argLeaf, status, retRoot,
          retProof, retBool, tree, argProofHex, argRootHex, argLeafHex,
          retRootHex, retProofHex, data, padded, blocks>>

\* ------------------------------------------------------------- byte strings
\* Python's bytes ordering: lexicographic on unsigned bytes, decided by the
\* first position where the two differ; a proper prefix is smaller.
BytesGreater(a, b) ==
    LET n == IF Len(a) < Len(b) THEN Len(a) ELSE Len(b)
    IN IF a = b THEN FALSE
       ELSE IF \E i \in 1..n : a[i] # b[i]
       THEN LET k == CHOOSE i \in 1..n :
                        a[i] # b[i] /\ \A j \in 1..(i - 1) : a[j] = b[j]
            IN a[k] > b[k]
       ELSE Len(a) > Len(b)

BytesLessEq(a, b) == ~BytesGreater(a, b)

\* ---------------------------------------------------------------- hashing
\* Collision-free digest: a payload-dependent leading byte, a zero byte and
\* the payload itself.
_keccak_bytes(payload) ==
    LET n == Len(payload)
        mix == IF n < 2 THEN n ELSE (payload[1] + 3 * payload[n - 1] + n) % 7
    IN <<mix, 0>> \o payload

\* A swap written as two assignments: the larger node is lost.
hash_pair_lost_swap(left, right) ==
    IF BytesGreater(left, right)
    THEN _keccak_bytes(right \o right)
    ELSE _keccak_bytes(left \o right)

\* No sorting of the pair.
hash_pair_unsorted(left, right) == _keccak_bytes(left \o right)

_hash_pair(left, right) ==
    IF BytesGreater(left, right)
    THEN _keccak_bytes(right \o left)
    ELSE _keccak_bytes(left \o right)

\* ---------------------------------------------------------------- records
\* String fields are their UTF-8 bytes; nonce is a one-digit integer.
Records(maxNonce) ==
    [biometric_hash : {<<97>>}, digital_pubkey : {<<98>>},
     metadata_hash : {<<99>>}, nonce : 1..maxNonce]

\* json.dumps(..., sort_keys=True, separators=(",", ":")): "{", the four
\* fields in key order separated by ",", "}"; the constant key text is left
\* out, the nonce is its decimal digit.
serialized(record) ==
    <<123>> \o record.biometric_hash \o <<44>> \o record.digital_pubkey
        \o <<44>> \o record.metadata_hash \o <<44, 48 + record.nonce, 125>>

to_leaf(record) == _keccak_bytes(serialized(record))

RECURSIVE LeavesFrom(_, _)
LeavesFrom(recs, k) ==
    IF k > Len(recs) THEN <<>>
    ELSE <<to_leaf(recs[k])>> \o LeavesFrom(recs, k + 1)

\* [record.to_leaf() for record in records]
Leaves(recs) == LeavesFrom(recs, 1)

\* ------------------------------------------------------------ build loops
\* The last node of an odd level moved up as it is, not hashed with itself.
node_above_promoted(level, i) ==
    IF i + 1 < Len(level)
    THEN _hash_pair(level[i + 1], level[i + 2])
    ELSE level[i + 1]

\* The node appended to next_level for the pair starting at (0-based) i.
node_above(level, i) ==
    LET left == level[i + 1]
        right == IF i + 1 < Len(level) THEN level[i + 2] ELSE left
    IN _hash_pair(left, right)

\* for i in range(0, len(level), 2): next_level.append(...), from i on.
RECURSIVE next_level_from(_, _)
next_level_from(level, i) ==
    IF i >= Len(level) THEN <<>>
    ELSE <<node_above(level, i)>> \o next_level_from(level, i + 2)

next_level(level) == next_level_from(level, 0)

\* The successive values of `level` in `while len(level) > 1`.
RECURSIVE root_levels(_)
root_levels(level) ==
    IF Len(level) > 1
    THEN <<level>> \o root_levels(next_level(level))
    ELSE <<level>>

build_merkle_root(recs) ==
    LET leaves == Leaves(recs)
        levels == root_levels(leaves)
    IN IF leaves = <<>>
       THEN [status |-> "ValueError", value |-> <<>>, levels |-> <<>>]
       ELSE [status |-> "ok", value |-> levels[Len(levels)][1], levels |-> levels]

\* Only the pair that starts at idx itself: misses the pair of an odd idx.
on_path_exact(i, idx) == i = idx

\* if i == idx - (idx % 2)
on_path(i, idx) == i = idx - (idx % 2)

\* The two children taken the wrong way round.
sibling_of_inverted(level, i, idx) ==
    LET left == level[i + 1]
        right == IF i + 1 < Len(level) THEN level[i + 2] ELSE left
    IN IF idx % 2 = 0 THEN left ELSE right

\* sibling = right if idx % 2 == 0 else left
sibling_of(level, i, idx) ==
    LET left == level[i + 1]
        right == IF i + 1 < Len(level) THEN level[i + 2] ELSE left
    IN IF idx % 2 = 0 THEN right ELSE left

\* The siblings the for loop appends to the proof for one level, from i on.
RECURSIVE siblings_from(_, _, _)
siblings_from(level, idx, i) ==
    IF i >= Len(level) THEN <<>>
    ELSE (IF on_path(i, idx) THEN <<sibling_of(level, i, idx)>> ELSE <<>>)
            \o siblings_from(level, idx, i + 2)

siblings(level, idx) == siblings_from(level, idx, 0)

RECURSIVE proof_loop(_, _, _)
proof_loop(level, idx, proof) ==
    IF Len(level) > 1
    THEN proof_loop(next_level(level), idx \div 2, proof \o siblings(level, idx))
    ELSE proof

\* The range check written with > for >=.
proof_guard_off_by_one(leaves, idx) ==
    IF leaves = <<>> THEN "ValueError"
    ELSE IF idx < 0 \/ idx > Len(leaves) THEN "IndexError"
    ELSE "ok"

proof_guard(leaves, idx) ==
    IF leaves = <<>> THEN "ValueError"
    ELSE IF idx < 0 \/ idx >= Len(leaves) THEN "IndexError"
    ELSE "ok"

build_merkle_proof(recs, idx) ==
    LET leaves == Leaves(recs)
        guard == proof_guard(leaves, idx)
    IN IF guard # "ok"
       THEN [status |-> guard, value |-> <<>>]
       ELSE [status |-> "ok", value |-> proof_loop(leaves, idx, <<>>)]

\* ----------------------------------------------------------------- verify
RECURSIVE verify_fold(_, _)
verify_fold(computed, proof) ==
    IF proof = <<>> THEN computed
    ELSE LET sibling == Head(proof)
         IN verify_fold(IF BytesLessEq(computed, sibling)
                        THEN _hash_pair(computed, sibling)
                        ELSE _hash_pair(sibling, computed),
                        Tail(proof))

\* The comparison with the root made inside the loop: accepts as soon as any
\* prefix of the proof reaches the root.
verify_early_exit(proof, root, leaf) ==
    \E k \in 0..Len(proof) : verify_fold(leaf, SubSeq(proof, 1, k)) = root

verify_merkle_proof(proof, root, leaf) == verify_fold(leaf, proof) = root

\* -------------------------------------------------------------------- hex
HexDigits ==
    <<"0", "1", "2", "3", "4", "5", "6", "7", "8", "9", "a", "b", "c", "d", "e", "f">>

\* The value of a hex digit, either case; -1 for any other character.
HexVal(c) ==
    CASE c = "0" -> 0 [] c = "1" -> 1 [] c = "2" -> 2 [] c = "3" -> 3
      [] c = "4" -> 4 [] c = "5" -> 5 [] c = "6" -> 6 [] c = "7" -> 7
      [] c = "8" -> 8 [] c = "9" -> 9
      [] c \in {"a", "A"} -> 10 [] c \in {"b", "B"} -> 11
      [] c \in {"c", "C"} -> 12 [] c \in {"d", "D"} -> 13
      [] c \in {"e", "E"} -> 14 [] c \in {"f", "F"} -> 15
      [] OTHER -> -1

\* Low nibble first.
bytes_hex_swapped(b) ==
    [k \in 1..(2 * Len(b)) |->
        LET byte == b[(k + 1) \div 2]
        IN HexDigits[(IF k % 2 = 1 THEN byte % 16 ELSE byte \div 16) + 1]]

\* bytes.hex(): two lower-case digits per byte, high nibble first, no prefix.
bytes_hex(b) ==
    [k \in 1..(2 * Len(b)) |->
        LET byte == b[(k + 1) \div 2]
        IN HexDigits[(IF k % 2 = 1 THEN byte \div 16 ELSE byte % 16) + 1]]

\* bytes.fromhex() of a string without whitespace: ValueError on an odd
\* number of characters or a character that is no hex digit.
bytes_fromhex(str) ==
    IF Len(str) % 2 = 1 \/ \E k \in 1..Len(str) : HexVal(str[k]) < 0
    THEN [status |-> "ValueError", value |-> <<>>]
    ELSE [status |-> "ok",
          value |-> [k \in 1..(Len(str) \div 2) |->
                        16 * HexVal(str[2 * k - 1]) + HexVal(str[2 * k])]]

\* The prefix is never removed.
strip_0x_never(hex_string) == hex_string

_strip_0x(hex_string) ==
    IF Len(hex_string) >= 2 /\ hex_string[1] = "0" /\ hex_string[2] = "x"
    THEN SubSeq(hex_string, 3, Len(hex_string))
    ELSE hex_string

build_merkle_root_hex(recs) ==
    LET r == build_merkle_root(recs)
    IN IF r.status # "ok" THEN [status |-> r.status, value |-> <<>>]
       ELSE [status |-> "ok", value |-> bytes_hex(r.value)]

build_merkle_proof_hex(recs, idx) ==
    LET r == build_merkle_proof(recs, idx)
    IN IF r.status # "ok" THEN [status |-> r.status, value |-> <<>>]
       ELSE [status |-> "ok",
             value |-> [k \in 1..Len(r.value) |-> bytes_hex(r.value[k])]]

verify_merkle_proof_hex(proof_hex, root_hex, leaf_hex) ==
    LET proof_bytes == [k \in 1..Len(proof_hex) |-> bytes_fromhex(_strip_0x(proof_hex[k]))]
        root_bytes == bytes_fromhex(_strip_0x(root_hex))
        leaf_bytes == bytes_fromhex(_strip_0x(leaf_hex))
    IN IF \/ \E k \in 1..Len(proof_hex) : proof_bytes[k].status # "ok"
          \/ root_bytes.status # "ok"
          \/ leaf_bytes.status # "ok"
       THEN [status |-> "ValueError", value |-> FALSE]
       ELSE [status |-> "ok",
             value |-> verify_merkle_proof(
                           [k \in 1..Len(proof_hex) |-> proof_bytes[k].value],
                           root_bytes.value, leaf_bytes.value)]

\* ------------------------------------------------------------- keccak_256
rate_bytes == 136

\* while len(padded) % rate_bytes != rate_bytes - 1: padded.append(0x00)
RECURSIVE pad_zeros(_)
pad_zeros(buffer) ==
    IF Len(buffer) % rate_bytes # rate_bytes - 1
    THEN pad_zeros(Append(buffer, 0))
    ELSE buffer

\* padded = bytearray(data); append 0x01; zero bytes; append 0x80
pad10star1(bytes) == Append(pad_zeros(Append(bytes, 1)), 128)

\* for offset in range(0, len(padded), rate_bytes):
\*     block = padded[offset : offset + rate_bytes], from offset on.
RECURSIVE absorb_blocks(_, _)
absorb_blocks(buffer, offset) ==
    IF offset >= Len(buffer) THEN <<>>
    ELSE LET end == IF offset + rate_bytes < Len(buffer)
                    THEN offset + rate_bytes ELSE Len(buffer)
         IN <<SubSeq(buffer, offset + 1, end)>> \o absorb_blocks(buffer, offset + rate_bytes)

\* ------------------------------------------------------------ state machine
SeqsUpTo(S, n) == UNION {[1..k -> S] : k \in 0..n}

InitWith(recordSeqs) ==
    /\ records \in recordSeqs
    /\ pc = "idle"
    /\ op = "none"
    /\ index = 0
    /\ argProof = <<>>
    /\ argRoot = <<>>
    /\ argLeaf = <<>>
    /\ status = "none"
    /\ retRoot = <<>>
    /\ retProof = <<>>
    /\ retBool = FALSE
    /\ tree = <<>>
    /\ argProofHex = <<>>
    /\ argRootHex = <<>>
    /\ argLeafHex = <<>>
    /\ retRootHex = <<>>
    /\ retProofHex = <<>>
    /\ data = <<>>
    /\ padded = <<>>
    /\ blocks = <<>>

hexVars == <<argProofHex, argRootHex, argLeafHex, retRootHex, retProofHex>>
keccakVars == <<data, padded, blocks>>
verifyArgs == <<argProof, argRoot, argLeaf>>

\* A call of build_merkle_root(records).
BuildMerkleRoot ==
    /\ pc = "idle"
    /\ LET r == build_merkle_root(records)
       IN /\ status' = r.status
          /\ retRoot' = r.value
          /\ tree' = r.levels
    /\ pc' = "done"
    /\ op' = "build_merkle_root"
    /\ UNCHANGED <<records, index, verifyArgs, retProof, retBool, hexVars, keccakVars>>

\* A call of build_merkle_proof(records, i), i also out of range.
BuildMerkleProof ==
    /\ pc = "idle"
    /\ \E i \in -2..(Len(records) + 2) :
        LET r == build_merkle_proof(records, i)
        IN /\ index' = i
           /\ status' = r.status
           /\ retProof' = r.value
    /\ pc' = "done"
    /\ op' = "build_merkle_proof"
    /\ UNCHANGED <<records, verifyArgs, retRoot, retBool, tree, hexVars, keccakVars>>

\* The effect of verify_merkle_proof(proof, root, leaf).
Verify(proof, root, leaf) ==
    /\ pc = "idle"
    /\ argProof' = proof
    /\ argRoot' = root
    /\ argLeaf' = leaf
    /\ status' = "ok"
    /\ retBool' = verify_merkle_proof(proof, root, leaf)
    /\ pc' = "done"
    /\ op' = "verify_merkle_proof"
    /\ UNCHANGED <<records, retRoot, retProof, tree, hexVars, keccakVars>>

\* verify_merkle_proof on what the builders return for a valid index.
VerifyBuilt ==
    \E i \in 0..(Len(records) - 1) :
    \E proof \in {build_merkle_proof(records, i).value} :
    \E root \in {build_merkle_root(records).value} :
    \E leaf \in {to_leaf(records[i + 1])} :
        /\ index' = i
        /\ Verify(proof, root, leaf)

\* All short record sequences over a few records (equal leaves included), and
\* every ordering of five pairwise distinct records.
DistinctFive ==
    {s \in [1..5 -> Records(5)] : \A a, b \in 1..5 : s[a] = s[b] => a = b}

Init == InitWith(SeqsUpTo(Records(MaxNonce), MaxRecords) \cup DistinctFive)

Next == BuildMerkleRoot \/ BuildMerkleProof \/ VerifyBuilt

Spec == Init /\ [][Next]_vars

\* ------------------------------------------------- untrusted verify inputs
Range(f) == {f[x] : x \in DOMAIN f}

\* Every node of the tree over the records' leaves, all levels.
TreeNodes(recs) ==
    LET levels == root_levels(Leaves(recs))
    IN UNION {Range(levels[k]) : k \in 1..Len(levels)}

\* The digests a caller may hand over: the tree's nodes and the leaf of a
\* record that is not in the tree.
Digests(recs, maxNonce) ==
    TreeNodes(recs) \cup
        {to_leaf([biometric_hash |-> <<97>>, digital_pubkey |-> <<98>>,
                  metadata_hash |-> <<99>>, nonce |-> maxNonce + 1])}

\* verify_merkle_proof on a built triple with its leaf (pos = 0) or one
\* sibling (pos > 0) replaced by another digest.
VerifyTampered ==
    \E digests \in {Digests(records, MaxTamperNonce)} :
    \E root \in {build_merkle_root(records).value} :
    \E i \in 0..(Len(records) - 1) :
    \E proof \in {build_merkle_proof(records, i).value} :
    \E leaf \in {to_leaf(records[i + 1])} :
    \E pos \in 0..Len(proof) :
    \E d \in digests :
        /\ d # (IF pos = 0 THEN leaf ELSE proof[pos])
        /\ index' = i
        /\ \E tampered \in {IF pos = 0 THEN proof ELSE [proof EXCEPT ![pos] = d]} :
           \E v \in {IF pos = 0 THEN d ELSE leaf} :
              Verify(tampered, root, v)

\* verify_merkle_proof on any leaf value and any proof against the root of
\* the records.
VerifyUntrusted ==
    /\ records # <<>>
    /\ \E root \in {build_merkle_root(records).value} :
       \E digests \in {Digests(records, MaxAdvNonce)} :
       \E v \in digests :
       \E proof \in SeqsUpTo(digests, MaxAdvProof) :
          /\ index' = 0
          /\ Verify(proof, root, v)

InitTamper == InitWith(SeqsUpTo(Records(MaxTamperNonce), MaxTamperRecords))

SpecTamper == InitTamper /\ [][VerifyTampered]_vars


\* ------------------------------------------------------- hex entry points
\* A call of build_merkle_root_hex(records).
BuildMerkleRootHex ==
    /\ pc = "idle"
    /\ LET r == build_merkle_root_hex(records)
       IN /\ status' = r.status
          /\ retRootHex' = r.value
    /\ pc' = "done"
    /\ op' = "build_merkle_root_hex"
    /\ UNCHANGED <<records, index, verifyArgs, retRoot, retProof, retBool, tree,
                   argProofHex, argRootHex, argLeafHex, retProofHex, keccakVars>>

\* A call of build_merkle_proof_hex(records, i), i also out of range.
BuildMerkleProofHex ==
    /\ pc = "idle"
    /\ \E i \in -1..(Len(records) + 1) :
        LET r == build_merkle_proof_hex(records, i)
        IN /\ index' = i
           /\ status' = r.status
           /\ retProofHex' = r.value
    /\ pc' = "done"
    /\ op' = "build_merkle_proof_hex"
    /\ UNCHANGED <<records, verifyArgs, retRoot, retProof, retBool, tree,
                   argProofHex, argRootHex, argLeafHex, retRootHex, keccakVars>>

\* How a caller may write a digest down: its hex digits, with a 0x prefix or
\* without, cut by one character, or with a character that is no hex digit.
Written(b, prefixed, form) ==
    LET digits == bytes_hex(b)
        text == CASE form = "odd" -> SubSeq(digits, 1, Len(digits) - 1)
                  [] form = "nonhex" -> [digits EXCEPT ![1] = "g"]
                  [] OTHER -> digits
    IN IF prefixed THEN <<"0", "x">> \o text ELSE text

\* A call of verify_merkle_proof_hex on the written form of a built triple
\* (or of one with the root in place of the leaf); at most one of the three
\* parts is malformed.  The byte values written down are kept in argProof,
\* argRoot and argLeaf.
VerifyMerkleProofHex ==
    /\ pc = "idle"
    /\ \E i \in 0..(Len(records) - 1) :
       \E proof \in {build_merkle_proof(records, i).value} :
       \E root \in {build_merkle_root(records).value} :
       \E leaf \in {to_leaf(records[i + 1]), build_merkle_root(records).value} :
       \E pp, pr, pl \in BOOLEAN :
       \E part \in {"none", "proof", "root", "leaf"} :
       \E form \in {"odd", "nonhex"} :
       \E proofHex \in {[k \in 1..Len(proof) |->
                           Written(proof[k], pp,
                                   IF part = "proof" /\ k = 1 THEN form ELSE "ok")]} :
       \E rootHex \in {Written(root, pr, IF part = "root" THEN form ELSE "ok")} :
       \E leafHex \in {Written(leaf, pl, IF part = "leaf" THEN form ELSE "ok")} :
       \E r \in {verify_merkle_proof_hex(proofHex, rootHex, leafHex)} :
          /\ index' = i
          /\ argProof' = proof
          /\ argRoot' = root
          /\ argLeaf' = leaf
          /\ argProofHex' = proofHex
          /\ argRootHex' = rootHex
          /\ argLeafHex' = leafHex
          /\ status' = r.status
          /\ retBool' = r.value
    /\ pc' = "done"
    /\ op' = "verify_merkle_proof_hex"
    /\ UNCHANGED <<records, retRoot, retProof, tree, retRootHex, retProofHex, keccakVars>>

\* Record sequences whose k-th record has a nonce of at most k: every pattern
\* of equal and different leaves, without the renamings of the records.
InitAdv ==
    InitWith({s \in SeqsUpTo(Records(MaxAdvNonce), MaxAdvRecords) :
                 \A k \in 1..Len(s) : s[k].nonce <= k})

NextAdv == VerifyUntrusted \/ VerifyMerkleProofHex

SpecAdv == InitAdv /\ [][NextAdv]_vars

InitHex == InitWith(SeqsUpTo(Records(MaxHexNonce), MaxHexRecords))

NextHex == BuildMerkleRootHex \/ BuildMerkleProofHex \/ VerifyMerkleProofHex

SpecHex == InitHex /\ [][NextHex]_vars

\* ------------------------------------------------------------- keccak_256
\* A call of keccak_256(data) up to the absorb loop: the padded buffer and the
\* blocks handed to the permutation.  The permutation and the squeeze work on
\* 64-bit lanes and are not part of the model.
Keccak256 ==
    /\ pc = "idle"
    /\ \E n \in 0..MaxDataLen : \E byte \in {0, 97, 255} :
       \E bytes \in {[k \in 1..n |-> byte]} :
       \E buffer \in {pad10star1(bytes)} :
          /\ data' = bytes
          /\ padded' = buffer
          /\ blocks' = absorb_blocks(buffer, 0)
    /\ status' = "ok"
    /\ pc' = "done"
    /\ op' = "keccak_256"
    /\ UNCHANGED <<records, index, verifyArgs, retRoot, retProof, retBool, tree, hexVars>>

InitKeccak == InitWith({<<>>})

SpecKeccak == InitKeccak /\ [][Keccak256]_vars

\* ------------------------------------------------------------------ claims
Done(name) == pc = "done" /\ op = name

RECURSIVE CeilLog2From(_, _, _)
CeilLog2From(n, k, pow) == IF pow >= n THEN k ELSE CeilLog2From(n, k + 1, 2 * pow)

CeilLog2(n) == CeilLog2From(n, 0, 1)

RECURSIVE Pow2(_)
Pow2(k) == IF k = 0 THEN 1 ELSE 2 * Pow2(k - 1)

PairwiseDistinct(s) == \A a, b \in 1..Len(s) : s[a] = s[b] => a = b

\* C1: verify_merkle_proof accepts, for every non-empty record sequence and
\* every valid index, the proof build_merkle_proof returns, against the root
\* build_merkle_root returns and the leaf of the record at that index.
C1_ProofCompleteness ==
    (/\ Done("verify_merkle_proof")
     /\ index \in 0..(Len(records) - 1)
     /\ argProof = build_merkle_proof(records, index).value
     /\ argRoot = build_merkle_root(records).value
     /\ argLeaf = to_leaf(records[index + 1]))
    => (status = "ok" /\ retBool = TRUE)

\* C1's case: five leaves with two equal ones, the proved leaf is the last
\* one, which is paired with its own copy at the first level.
C1_Witness ==
    /\ Done("verify_merkle_proof")
    /\ Len(records) = 5
    /\ index = 4
    /\ records[1] = records[2]
    /\ argProof = build_merkle_proof(records, index).value
    /\ argProof[1] = argLeaf
    /\ retBool = TRUE

\* C2: a proof for n leaves holds ceil(log2(n)) siblings, exactly one for
\* each level below the root.
C2_ProofLength ==
    (Done("build_merkle_proof") /\ status = "ok")
    => /\ Len(retProof) = CeilLog2(Len(records))
       /\ LET levels == root_levels(Leaves(records))
          IN \A k \in 1..(Len(levels) - 1) :
                Len(siblings(levels[k], index \div Pow2(k - 1))) = 1

\* C2's case: a 3-leaf tree, an odd index, 2 siblings.
C2_Witness ==
    /\ Done("build_merkle_proof")
    /\ status = "ok"
    /\ Len(records) = 3
    /\ index = 1
    /\ Len(retProof) = 2

\* C3: the builders fail with ValueError on zero records whatever the index,
\* build_merkle_proof fails with IndexError exactly when the index is outside
\* 0..len-1, a failure returns nothing, and otherwise a proof is returned.
C3_InputValidation ==
    /\ Done("build_merkle_root") =>
          /\ (records = <<>>) <=> (status = "ValueError")
          /\ (records # <<>>) <=> (status = "ok")
          /\ status # "ok" => (retRoot = <<>> /\ tree = <<>>)
    /\ Done("build_merkle_proof") =>
          /\ (records = <<>>) <=> (status = "ValueError")
          /\ (records # <<>> /\ (index < 0 \/ index >= Len(records)))
               <=> (status = "IndexError")
          /\ (records # <<>> /\ index >= 0 /\ index < Len(records))
               <=> (status = "ok")
          /\ status # "ok" => retProof = <<>>

\* C3's case: the first index past the end of a non-empty sequence.
C3_Witness ==
    /\ Done("build_merkle_proof")
    /\ records # <<>>
    /\ index = Len(records)
    /\ status = "IndexError"

\* The verification fold with the pair always handed over as (sibling,
\* computed), whatever their order.
RECURSIVE FoldSiblingFirst(_, _)
FoldSiblingFirst(computed, proof) ==
    IF proof = <<>> THEN computed
    ELSE FoldSiblingFirst(_hash_pair(Head(proof), computed), Tail(proof))

\* C7: every internal node is the digest of its two children concatenated
\* smaller first, _hash_pair is symmetric, and verification gives the same
\* result when each pair is handed over the other way round.
C7_OrderedPairHashing ==
    /\ Done("build_merkle_root") =>
          \A k \in 1..(Len(tree) - 1) : \A j \in 1..Len(tree[k + 1]) :
             LET l == tree[k][2 * j - 1]
                 r == IF 2 * j <= Len(tree[k]) THEN tree[k][2 * j] ELSE l
                 lo == IF BytesGreater(l, r) THEN r ELSE l
                 hi == IF BytesGreater(l, r) THEN l ELSE r
             IN /\ tree[k + 1][j] = _keccak_bytes(lo \o hi)
                /\ _hash_pair(l, r) = _hash_pair(r, l)
    /\ Done("verify_merkle_proof") =>
          retBool = (FoldSiblingFirst(argLeaf, argProof) = argRoot)

\* C7's case: a root built over a level whose left child is the larger one.
C7_Witness ==
    /\ Done("build_merkle_root")
    /\ Len(tree) >= 2
    /\ BytesGreater(tree[1][1], tree[1][2])

\* C8: an odd level of m > 1 nodes gives ceil(m/2) nodes, the last one the
\* digest of the last node with its own copy; the leaf list is the records'
\* leaves, not extended; and the root of five pairwise distinct leaves differs
\* from the root of the first four.
C8_OddLevels ==
    (Done("build_merkle_root") /\ status = "ok")
    => /\ tree[1] = Leaves(records)
       /\ Len(tree[1]) = Len(records)
       /\ Len(tree[Len(tree)]) = 1
       /\ \A k \in 1..(Len(tree) - 1) :
             LET m == Len(tree[k])
                 last == tree[k][m]
             IN /\ Len(tree[k + 1]) = (m + 1) \div 2
                /\ (m % 2 = 1 /\ m > 1) =>
                      tree[k + 1][(m + 1) \div 2] = _keccak_bytes(last \o last)
       /\ (Len(records) = 5 /\ PairwiseDistinct(Leaves(records))) =>
             retRoot # build_merkle_root(SubSeq(records, 1, 4)).value

\* C8's case: the root of five pairwise distinct leaves.
C8_Witness ==
    /\ Done("build_merkle_root")
    /\ status = "ok"
    /\ Len(records) = 5
    /\ PairwiseDistinct(Leaves(records))
    /\ Len(tree) = 4
    /\ Len(tree[2]) = 3

\* The built triple for the current index.
BuiltProof == build_merkle_proof(records, index).value

BuiltRoot == build_merkle_root(records).value

BuiltLeaf == to_leaf(records[index + 1])

LowerHexChars ==
    {"0", "1", "2", "3", "4", "5", "6", "7", "8", "9", "a", "b", "c", "d", "e", "f"}

\* An even number of hex digits after an optional leading 0x.
WellFormedHex(str) ==
    LET from == IF Len(str) >= 2 /\ str[1] = "0" /\ str[2] = "x" THEN 3 ELSE 1
    IN /\ (Len(str) - from + 1) % 2 = 0
       /\ \A k \in from..Len(str) :
             str[k] \in LowerHexChars \cup {"A", "B", "C", "D", "E", "F"}

SingleReplacement ==
    /\ index \in 0..(Len(records) - 1)
    /\ argRoot = BuiltRoot
    /\ Len(argProof) = Len(BuiltProof)
    /\ \/ argLeaf # BuiltLeaf /\ argProof = BuiltProof
       \/ /\ argLeaf = BuiltLeaf
          /\ Cardinality({k \in 1..Len(argProof) : argProof[k] # BuiltProof[k]}) = 1

\* C5: a built triple with its leaf or one of its siblings replaced by a
\* different digest is rejected.
C5_TamperDetection ==
    (Done("verify_merkle_proof") /\ SingleReplacement)
    => (status = "ok" /\ retBool = FALSE)

\* C5's case: the upper sibling of a 3-leaf tree's proof replaced by a leaf.
C5_Witness ==
    /\ Done("verify_merkle_proof")
    /\ SingleReplacement
    /\ Len(records) = 3
    /\ Len(argProof) = 2
    /\ argLeaf = BuiltLeaf
    /\ argProof[2] # BuiltProof[2]
    /\ argProof[2] \in Range(Leaves(records))
    /\ retBool = FALSE

\* C6: the padded buffer is the smallest multiple of the rate strictly
\* greater than the input length: 1 to 136 bytes are added and
\* floor(n/136)+1 blocks are absorbed.
C6_PaddingToNextBlock ==
    Done("keccak_256") =>
        LET n == Len(data)
        IN /\ Len(padded) > 0
           /\ Len(padded) % rate_bytes = 0
           /\ Len(padded) = rate_bytes * ((n \div rate_bytes) + 1)
           /\ Len(padded) - n \in 1..rate_bytes
           /\ Len(blocks) = (n \div rate_bytes) + 1

IsLowerHex(str) == \A k \in 1..Len(str) : str[k] \in LowerHexChars

\* str is what bytes.hex() gives for b, with or without a leading 0x.
Encodes(str, b) ==
    \/ str = bytes_hex(b)
    \/ str = <<"0", "x">> \o bytes_hex(b)

\* C9: the hex builders fail as the byte builders do and otherwise return
\* lower-case digits without prefix, two per byte, that decode to the byte
\* builders' values; verify_merkle_proof_hex on the encodings, with or
\* without 0x, returns what verify_merkle_proof returns on the bytes.
C9_HexAgreesWithBytes ==
    /\ Done("build_merkle_root_hex") =>
          /\ status = build_merkle_root(records).status
          /\ status = "ok" =>
                /\ IsLowerHex(retRootHex)
                /\ Len(retRootHex) = 2 * Len(BuiltRoot)
                /\ bytes_fromhex(retRootHex) = [status |-> "ok", value |-> BuiltRoot]
    /\ Done("build_merkle_proof_hex") =>
          /\ status = build_merkle_proof(records, index).status
          /\ status = "ok" =>
                /\ Len(retProofHex) = Len(BuiltProof)
                /\ \A k \in 1..Len(retProofHex) :
                      /\ IsLowerHex(retProofHex[k])
                      /\ Len(retProofHex[k]) = 2 * Len(BuiltProof[k])
                      /\ bytes_fromhex(retProofHex[k])
                            = [status |-> "ok", value |-> BuiltProof[k]]
    /\ (/\ Done("verify_merkle_proof_hex")
        /\ Encodes(argRootHex, argRoot)
        /\ Encodes(argLeafHex, argLeaf)
        /\ Len(argProofHex) = Len(argProof)
        /\ \A k \in 1..Len(argProof) : Encodes(argProofHex[k], argProof[k]))
       => /\ status = "ok"
          /\ retBool = verify_merkle_proof(argProof, argRoot, argLeaf)

\* C9's case: a built triple verified through the hex entry point, the root
\* written with 0x and the leaf without.
C9_Witness ==
    /\ Done("verify_merkle_proof_hex")
    /\ Len(argProof) = 2
    /\ argProof = BuiltProof
    /\ argLeaf = BuiltLeaf
    /\ argRootHex = <<"0", "x">> \o bytes_hex(argRoot)
    /\ argLeafHex = bytes_hex(argLeaf)
    /\ \A k \in 1..2 : argProofHex[k] = bytes_hex(argProof[k])
    /\ status = "ok"
    /\ retBool = TRUE

\* C10 as stated: whatever verify_merkle_proof accepts against the records'
\* root is the leaf of one of the records.
C10_AcceptsOnlyLeaves ==
    (Done("verify_merkle_proof") /\ argRoot = BuiltRoot /\ retBool = TRUE)
    => argLeaf \in Range(Leaves(records))

\* C10 amended: whatever verify_merkle_proof accepts against the records'
\* root with a proof of k siblings is a node of the tree k levels below the
\* root, k at most the height; it is the leaf of one of the records when k is
\* the height, and an internal node (the root for k = 0) when k is smaller.
C10_AcceptsOnlyNodesAtProofDepth ==
    (Done("verify_merkle_proof") /\ argRoot = BuiltRoot /\ retBool = TRUE)
    => LET levels == root_levels(Leaves(records))
           height == Len(levels) - 1
       IN /\ Len(argProof) <= height
          /\ argLeaf \in Range(levels[Len(levels) - Len(argProof)])
          /\ Len(argProof) = height => argLeaf \in Range(Leaves(records))

\* C10's case: a leaf of a 3-leaf tree accepted with a proof of 2 siblings.
C10_Witness ==
    /\ Done("verify_merkle_proof")
    /\ argRoot = BuiltRoot
    /\ Len(records) = 3
    /\ Len(argProof) = 2
    /\ argLeaf = to_leaf(records[3])
    /\ retBool = TRUE

====
